---- MODULE Spec2Model ----
(***************************************************************************)
(* excel-data-hub: the ingestion pipeline (ExcelProcessor::                *)
(* batch_import_excel_files_with_options and process_single_file) and the  *)
(* search engine (ExcelProcessor::search_data) over the store (tables      *)
(* files and excel_data).                                                  *)
(***************************************************************************)
EXTENDS Integers, Sequences, FiniteSets, TLC

\* ------------------------------------------------------------------ bounds
NumFiles == 2          \* files below the root folder
NumContents == 2       \* distinct byte contents a file can have
MaxRuns == 2           \* ImportFolder runs (one per process start)
MaxConcurrent == 2     \* largest MAX_CONCURRENT_FILES tried (0 is tried too)
MaxFaults == 1         \* failures (I/O, store, panic) injected into one run
MaxRequests == 1       \* requests the web server serves in one process

Paths == 1..NumFiles
Contents == 1..NumContents

NoFile == 0            \* "no file id yet" (SERIAL ids start at 1)

\* ------------------------------------------------------------ pure helpers
Range(s) == {s[i] : i \in DOMAIN s}

\* generate_file_hash: the digest of the whole content, printed as hex.
\* Distinct contents of the model have distinct digests.
generate_file_hash(c) == <<"md5", c>>

\* The workbook a content holds, as read_excel_file returns it
\* (all_sheets_data): the sheets that have data rows, in workbook order,
\* each a pair <<sheet_name, rows_data>>.  A content c has c % 3 such sheets
\* (a workbook may have none), sheet s of it has 1 + (c + s) % 2 data rows.
SheetCount(c) == c % 3
RowCount(c, s) == 1 + ((c + s) % 2)
read_excel_file(c) ==
    [s \in 1..SheetCount(c) |->
        <<s, [r \in 1..RowCount(c, s) |-> <<c, s, r>>]>>]

\* Path::file_name of path p.  The paths are a/data.xlsx, b/data.xlsx (one
\* base name in two directories) and, third and in the root folder itself, a
\* base name of eleven three-byte characters and the extension; the pattern
\* repeats from the fourth on.
\* Texts are sequences of one-character strings; "\\u4E2D" stands for one
\* character that takes three bytes in UTF-8.
WideChar == "\\u4E2D"
DataXlsx == <<"d", "a", "t", "a", ".", "x", "l", "s", "x">>
WideXlsx == [i \in 1..11 |-> WideChar] \o <<".", "x", "l", "s", "x">>
file_name(p) == IF p % 3 = 0 THEN WideXlsx ELSE DataXlsx

\* The directory a path lies in: 0 is the root folder itself, the others are
\* its subdirectories (a is 1, b is 2).
dir_of(p) == p % 3
SubDirs == {dir_of(p) : p \in Paths} \ {0}

\* What the scan can meet: nothing; the directory entry of file `at` cannot
\* be read ("entry"); the entry of subdirectory `at` cannot be read in the
\* listing of the root ("dir_entry"); or fs::read_dir fails on directory `at`,
\* the root or a subdirectory ("read_dir").
NoFault == [kind |-> "none", at |-> 0]
ScanFaults ==
    {NoFault}
    \cup {[kind |-> "entry", at |-> p] : p \in Paths}
    \cup {[kind |-> "dir_entry", at |-> d] : d \in SubDirs}
    \cup {[kind |-> "read_dir", at |-> d] : d \in SubDirs \cup {0}}

\* A chunk size one above the configured bound.
chunk_size_plus_one(m) == m + 1

\* chunk_size = max(1, max_concurrent_files)
chunk_size(m) == IF m > 1 THEN m ELSE 1

\* -------------------------------------------------------------- variables
VARIABLES
    disk,        \* path -> content: the bytes of each file below the root
    files,       \* table files: records [id, file_path, file_hash]
    excelData,   \* table excel_data: records [file_id, sheet_name, row_number, data_json, import_time]
    pc,          \* where batch_import_excel_files_with_options stands
    run,         \* runs started so far; also the clock chrono::Utc::now() reads
    root,        \* what folder_path is in this run: "dir", "missing", "file"
    force,       \* force_reimport of this run
    chunk,       \* chunk_size of this run: max(1, max_concurrent_files)
    excelFiles,  \* excel_files: the scan result
    idx,         \* position of the change-check loop in excelFiles
    toProcess,   \* files_to_process
    chunkStart,  \* first position in toProcess of the chunk being processed
    stats,       \* ImportStats
    result,      \* what the run returned: "none", "ok" (Ok(stats)), "err"
    tasks,       \* path -> the task spawned for it in this run
    faults,      \* failures injected into this run so far
    checkRes,    \* path -> outcome of is_file_changed in the scan loop of this run
    pre,         \* the store as it was when this run started
    unreadable,  \* the I/O error the scan of this run meets below the root, if any
    max_concurrent_files, \* MAX_CONCURRENT_FILES as main hands it to this run
    requests,    \* requests the web server of this process has served
    resp,        \* the answer of search_data, with the request, when it was the last request
    pages,       \* the result lists of the calls that page through one query
    workbook,    \* the answer of export_search_results, when it was the last request
    name,        \* a file name handed to sanitize_sheet_name
    sanitized,   \* what sanitize_sheet_name made of it
    cell_str,    \* the text of a cell read from a sheet
    value,       \* the JSON value read_excel_file made of it
    stats_cache, \* StatsCache: data and last_updated
    clock,       \* Instant::now(), in seconds
    stats_req    \* the requests for /api/stats: where each stands and its answer

vars == <<disk, files, excelData, pc, run, root, force, chunk, excelFiles, idx,
          toProcess, chunkStart, stats, result, tasks, faults, checkRes, pre,
          unreadable, max_concurrent_files, requests, resp,
          pages, workbook, name, sanitized, cell_str, value,
          stats_cache, clock, stats_req>>

\* What the web server's handlers and the pure conversions write.
queryVars == <<resp, pages, workbook, name, sanitized, cell_str, value,
               stats_cache, clock, stats_req>>

\* What a task of the run does not write.
coordVars == <<pc, run, root, force, chunk, excelFiles, idx, toProcess,
               chunkStart, stats, result, checkRes, pre, unreadable,
               max_concurrent_files, requests, queryVars>>

NoTask == [st |-> "none", fid |-> NoFile, sheet |-> 0, early |-> FALSE,
           joined |-> FALSE]

ZeroStats == [success |-> 0, failed |-> 0, total |-> 0, skipped |-> 0]

Running == {"check", "meta", "delete", "read", "insert"}
Finished == {"ok", "err", "crash"}

\* ------------------------------------------------------------ store access
\* files::Entity::find().filter(FilePath.eq(path)).one(db)
FindFile(tbl, p) == {f \in tbl : f.file_path = p}

\* The rows a file record owns.
RowsOf(tbl, fid) == {r \in tbl : r.file_id = fid}

\* The rows owned by the record of path p, in a store <<files, excel_data>>.
RowsOfPath(ftbl, dtbl, p) ==
    {r \in dtbl : \E f \in FindFile(ftbl, p) : r.file_id = f.id}

\* The records insert_excel_data builds for one sheet: row numbers 1..n in
\* input order, one import_time for the whole call.
SheetRecords(fid, sh, now) ==
    {[file_id |-> fid, sheet_name |-> sh[1], row_number |-> i,
      data_json |-> sh[2][i], import_time |-> now] : i \in DOMAIN sh[2]}

\* All the records a complete import of content c under file id fid writes.
ContentRecords(fid, c, now) ==
    UNION {SheetRecords(fid, read_excel_file(c)[s], now) :
              s \in DOMAIN read_excel_file(c)}

\* Mutation of is_file_changed: the comparison of the two hashes inverted.
is_file_changed_inverted(p) ==
    LET existing == FindFile(files, p) IN
    IF existing = {} THEN TRUE
    ELSE \E f \in existing : f.file_hash = generate_file_hash(disk[p])

\* is_file_changed, when neither the hash nor the lookup fails.
is_file_changed(p) ==
    LET existing == FindFile(files, p) IN
    IF existing = {} THEN TRUE
    ELSE \E f \in existing : f.file_hash # generate_file_hash(disk[p])

\* Mutation of needs_update: the result of the change check is ignored.
needs_update_always(f, r, p) == TRUE

\* Mutation of needs_update: a failed change check skips the file.
needs_update_fail_closed(f, r, p) ==
    IF f THEN TRUE
    ELSE IF r = "ok" THEN is_file_changed(p) ELSE FALSE

\* needs_update of the scan loop; r is how is_file_changed ended:
\* "ok", "hash_err" (fs::read failed) or "db_err" (the lookup failed).
needs_update(f, r, p) ==
    IF f THEN TRUE
    ELSE IF r = "ok" THEN is_file_changed(p) ELSE TRUE

\* Mutation of root_ok: the is_dir() check left out.
root_ok_exists(rt) == rt # "missing"

\* The root checks of the run: path.exists() and path.is_dir().
root_ok(rt) == rt = "dir"

NoResp == [query |-> <<>>, limit |-> 0, offset |-> 0, results |-> <<>>,
           scores |-> <<>>, total |-> 0]

\* An Option is held as a sequence: <<>> for None, <<v>> for Some(v).
\* StatsCache::new() at time 0, and no request for the statistics yet:
\* stats_req holds the answers given, in their order, and the number of
\* handlers that wait for get_statistics.
NoStats == [data |-> <<>>, last_updated |-> <<>>]
NoRequests == [log |-> <<>>, computing |-> 0]
CacheIdle ==
    /\ stats_cache = NoStats
    /\ clock = 0
    /\ stats_req = NoRequests

\* Nothing was exported, sanitised or read yet.
NoWorkbook == [query |-> <<>>, out |-> [status |-> "none"]]
NoValue == [t |-> "none"]
Idle ==
    /\ pages = <<>>
    /\ workbook = NoWorkbook
    /\ name = <<>>
    /\ sanitized = NoValue
    /\ cell_str = <<>>
    /\ value = NoValue
    /\ CacheIdle

Init ==
    /\ disk \in [Paths -> Contents]
    /\ files = {}
    /\ excelData = {}
    /\ pc = "idle"
    /\ run = 0
    /\ root = "dir"
    /\ force = FALSE
    /\ chunk = 1
    /\ excelFiles = <<>>
    /\ idx = 1
    /\ toProcess = <<>>
    /\ chunkStart = 1
    /\ stats = ZeroStats
    /\ result = "none"
    /\ tasks = [p \in Paths |-> NoTask]
    /\ faults = 0
    /\ checkRes = [p \in Paths |-> "none"]
    /\ pre = [files |-> {}, excelData |-> {}]
    /\ unreadable = NoFault
    /\ max_concurrent_files = 0
    /\ requests = 0
    /\ resp = NoResp
    /\ Idle

\* A step ends as r: anything but "ok" is a failure injected into the run
\* (an I/O error, a store error, a panic), of which a run has at most MaxFaults.
Inject(r) ==
    IF r = "ok" THEN faults' = faults
    ELSE faults < MaxFaults /\ faults' = faults + 1

\* ------------------------------------------------- the coordinator (a run)
\* The elements of a set of numbers, ascending.
RECURSIVE Ascending(_)
Ascending(S) ==
    IF S = {} THEN <<>>
    ELSE LET m == CHOOSE x \in S : \A y \in S : x <= y
         IN  <<m>> \o Ascending(S \ {m})

RECURSIVE Concat(_)
Concat(ss) == IF ss = <<>> THEN <<>> ELSE Head(ss) \o Concat(Tail(ss))

\* The Excel files scan_directory pushes for the entries of directory d that
\* are files: an entry that cannot be read is passed over (if let Ok(entry)).
files_in(d, fault) ==
    Ascending({p \in Paths : dir_of(p) = d /\ fault # [kind |-> "entry", at |-> p]})

\* scan_excel_files_recursive: read_dir of the root, then for every entry a
\* file is pushed and a subdirectory is scanned by a recursive call whose
\* error is handed up by `?`; so a read_dir that fails, on the root or on a
\* subdirectory, ends the whole scan with Err.  The subdirectories come first
\* here, in ascending order, then the files of the root.
scan_excel_files_recursive(fault) ==
    LET subs == Ascending({d \in SubDirs : fault # [kind |-> "dir_entry", at |-> d]})
    IN  IF fault.kind = "read_dir" /\ fault.at = 0 THEN [ok |-> FALSE, files |-> <<>>]
        ELSE IF \E i \in DOMAIN subs : fault = [kind |-> "read_dir", at |-> subs[i]]
        THEN [ok |-> FALSE, files |-> <<>>]
        ELSE [ok |-> TRUE,
              files |-> Concat([i \in DOMAIN subs |-> files_in(subs[i], fault)])
                        \o files_in(0, fault)]

\* batch_import_excel_files_with_options, up to the scan: the root checks;
\* a bad root returns Err before anything else happens, and so does a scan
\* that fails.
BeginImport ==
    /\ pc = "idle"
    /\ run < MaxRuns
    /\ \E f \in BOOLEAN, m \in 0..MaxConcurrent, rt \in {"dir", "missing", "file"},
          sf \in ScanFaults :
          /\ rt # "dir" => sf = NoFault
          /\ sf # NoFault => MaxFaults >= 1
          /\ run' = run + 1
          /\ root' = rt
          /\ force' = f
          /\ max_concurrent_files' = m
          /\ chunk' = chunk_size(m)
          /\ stats' = ZeroStats
          /\ toProcess' = <<>>
          /\ idx' = 1
          /\ chunkStart' = 1
          /\ tasks' = [p \in Paths |-> NoTask]
          /\ faults' = IF sf = NoFault THEN 0 ELSE 1
          /\ checkRes' = [p \in Paths |-> "none"]
          /\ pre' = [files |-> files, excelData |-> excelData]
          /\ unreadable' = sf
          /\ IF root_ok(rt) /\ scan_excel_files_recursive(sf).ok
             THEN /\ pc' = "checking"
                  /\ excelFiles' = scan_excel_files_recursive(sf).files
                  /\ result' = "none"
             ELSE /\ pc' = "returned"
                  /\ excelFiles' = <<>>
                  /\ result' = "err"
    /\ UNCHANGED <<queryVars, disk, files, excelData, requests>>

\* One iteration of the loop over excel_files: the change check and the
\* decision to process or to skip.
CheckNext ==
    /\ pc = "checking"
    /\ idx <= Len(excelFiles)
    /\ \E r \in {"ok", "hash_err", "db_err"} :
          LET p == excelFiles[idx] IN
          /\ force => r = "ok"
          /\ Inject(r)
          /\ checkRes' = [checkRes EXCEPT ![p] = IF force THEN "forced" ELSE r]
          /\ IF needs_update(force, r, p)
             THEN /\ toProcess' = Append(toProcess, p)
                  /\ stats' = [stats EXCEPT !.total = @ + 1]
             ELSE /\ toProcess' = toProcess
                  /\ stats' = [stats EXCEPT !.skipped = @ + 1]
    /\ idx' = idx + 1
    /\ UNCHANGED <<queryVars, disk, files, excelData, pc, run, root, force, chunk,
                   excelFiles, chunkStart, result, tasks, pre, unreadable, max_concurrent_files, requests>>

\* After the loop: nothing to process returns Ok(stats); else the chunks start.
EndCheck ==
    /\ pc = "checking"
    /\ idx > Len(excelFiles)
    /\ IF toProcess = <<>>
       THEN pc' = "returned" /\ result' = "ok"
       ELSE pc' = "spawn" /\ result' = result
    /\ UNCHANGED <<queryVars, faults, disk, files, excelData, run, root, force, chunk, excelFiles,
                   idx, toProcess, chunkStart, stats, tasks, checkRes, pre, unreadable, max_concurrent_files, requests>>

\* The positions of toProcess that form the current chunk.
ChunkPositions ==
    {i \in 1..Len(toProcess) : chunkStart <= i /\ i < chunkStart + chunk}
Chunk == {toProcess[i] : i \in ChunkPositions}

\* tasks.spawn for every file of the chunk.
SpawnBatch ==
    /\ pc = "spawn"
    /\ tasks' = [p \in Paths |->
                    IF p \in Chunk
                    THEN [NoTask EXCEPT !.st = IF force THEN "meta" ELSE "check"]
                    ELSE tasks[p]]
    /\ pc' = "join"
    /\ UNCHANGED <<queryVars, faults, disk, files, excelData, run, root, force, chunk, excelFiles,
                   idx, toProcess, chunkStart, stats, result, checkRes, pre, unreadable, max_concurrent_files, requests>>

\* Mutation of count_joined: a task that panicked is not counted.
count_joined_no_panic(st, s) ==
    IF st = "ok" THEN [s EXCEPT !.success = @ + 1]
    ELSE IF st = "err" THEN [s EXCEPT !.failed = @ + 1]
    ELSE s

\* The match on the joined result: Ok(Ok(())) counts a success, Ok(Err(e))
\* and a JoinError count a failure.
count_joined(st, s) ==
    IF st = "ok" THEN [s EXCEPT !.success = @ + 1]
    ELSE [s EXCEPT !.failed = @ + 1]

\* tasks.join_next() hands over one finished task; its outcome is counted.
JoinNext ==
    /\ pc = "join"
    /\ \E p \in Chunk :
          /\ tasks[p].st \in Finished
          /\ ~tasks[p].joined
          /\ tasks' = [tasks EXCEPT ![p].joined = TRUE]
          /\ stats' = count_joined(tasks[p].st, stats)
    /\ UNCHANGED <<queryVars, faults, disk, files, excelData, pc, run, root, force, chunk,
                   excelFiles, idx, toProcess, chunkStart, result, checkRes, pre, unreadable, max_concurrent_files, requests>>

\* Mutation of batch_done: join_next() never reports the JoinSet empty.
batch_done_never == FALSE

\* Mutation of batch_done: the join loop ends at the first failed task.
batch_done_abort ==
    \/ \A p \in Chunk : tasks[p].joined
    \/ \E p \in Chunk : tasks[p].joined /\ tasks[p].st \in {"err", "crash"}

\* Mutation of batch_done: the tasks are spawned and not waited for.
batch_done_nowait == TRUE

\* join_next() returns None once the JoinSet is empty: every task of the
\* chunk was joined.
batch_done == \A p \in Chunk : tasks[p].joined

\* The chunk is over: the next chunk, or Ok(stats) after the last one.
EndBatch ==
    /\ pc = "join"
    /\ batch_done
    /\ IF chunkStart + chunk <= Len(toProcess)
       THEN /\ chunkStart' = chunkStart + chunk
            /\ pc' = "spawn"
            /\ result' = result
       ELSE /\ chunkStart' = chunkStart
            /\ pc' = "returned"
            /\ result' = "ok"
    /\ UNCHANGED <<queryVars, faults, disk, files, excelData, run, root, force, chunk, excelFiles,
                   idx, toProcess, stats, tasks, checkRes, pre, unreadable, max_concurrent_files, requests>>

\* Mutation of import_returned: the server is started beside the join loop.
import_returned_or_joining == pc \in {"join", "returned"}

\* main awaits batch_import_excel_files_with_options before it goes on; an
\* Err is logged and main goes on all the same.
import_returned == pc = "returned"

\* main: web_server::start_server(db, port) after the import returned.
StartServer ==
    /\ import_returned
    /\ pc' = "serving"
    /\ UNCHANGED <<queryVars, faults, disk, files, excelData, run, root, force, chunk,
                   excelFiles, idx, toProcess, chunkStart, stats, result, tasks,
                   checkRes, pre, unreadable, max_concurrent_files, requests>>

\* The server answers one request (search, export or statistics); the
\* handlers read the store and start no import.
Request ==
    /\ pc = "serving"
    /\ requests < MaxRequests
    /\ requests' = requests + 1
    /\ UNCHANGED <<queryVars, faults, disk, files, excelData, pc, run, root, force, chunk,
                   excelFiles, idx, toProcess, chunkStart, stats, result, tasks,
                   checkRes, pre, unreadable, max_concurrent_files>>

\* The process ends after the run returned, before or after the server
\* started; what it held in memory is gone, the store and the files stay.
Exit ==
    /\ pc \in {"returned", "serving"}
    /\ pc' = "idle"
    /\ root' = "dir"
    /\ force' = FALSE
    /\ chunk' = 1
    /\ excelFiles' = <<>>
    /\ idx' = 1
    /\ toProcess' = <<>>
    /\ chunkStart' = 1
    /\ stats' = ZeroStats
    /\ result' = "none"
    /\ tasks' = [p \in Paths |-> NoTask]
    /\ faults' = 0
    /\ checkRes' = [p \in Paths |-> "none"]
    /\ pre' = [files |-> files, excelData |-> excelData]
    /\ unreadable' = NoFault
    /\ max_concurrent_files' = 0
    /\ requests' = 0
    /\ UNCHANGED <<queryVars, disk, files, excelData, run>>

\* Between two starts of the process a file's bytes may change.
EditFile ==
    /\ pc = "idle"
    /\ run < MaxRuns
    /\ \E p \in Paths, c \in Contents :
          /\ c # disk[p]
          /\ disk' = [disk EXCEPT ![p] = c]
    /\ UNCHANGED <<files, excelData, tasks, faults, unreadable>>
    /\ UNCHANGED coordVars

\* ------------------------------------- one file's task (process_single_file)
InFlight(p) == tasks[p].st \in Running

Fail(p) == [tasks EXCEPT ![p].st = "err"]

\* The task's own change check (skipped under force_reimport): unchanged
\* returns Ok(()) at once; changed or a failed check goes on.
TaskCheck(p) ==
    /\ tasks[p].st = "check"
    /\ \E r \in {"ok", "err"} :
       /\ Inject(r)
       /\ tasks' = IF r = "ok" /\ ~is_file_changed(p)
                   THEN [tasks EXCEPT ![p].st = "ok", ![p].early = TRUE]
                   ELSE [tasks EXCEPT ![p].st = "meta"]
    /\ UNCHANGED <<disk, files, excelData, unreadable>>
    /\ UNCHANGED coordVars

\* Mutation of upsert_file: no lookup, a record is inserted every time.
upsert_file_insert(p) ==
    files \cup {[id |-> Cardinality(files) + 1, file_path |-> p,
                 file_name |-> file_name(p),
                 file_hash |-> generate_file_hash(disk[p])]}

\* The files table after get_or_create_file_metadata succeeded for p: the
\* existing record gets the hash of the current bytes (its id stays), or a new
\* record is inserted.
upsert_file(p) ==
    LET existing == FindFile(files, p) IN
    IF existing # {}
    THEN {IF f \in existing
          THEN [f EXCEPT !.file_hash = generate_file_hash(disk[p])]
          ELSE f : f \in files}
    ELSE files \cup {[id |-> Cardinality(files) + 1, file_path |-> p,
                      file_name |-> file_name(p),
                      file_hash |-> generate_file_hash(disk[p])]}

\* get_or_create_file_metadata: fs::metadata, the hash, the lookup and the
\* update or insert; any of them may fail, and then nothing was written.
TaskMeta(p) ==
    /\ tasks[p].st = "meta"
    /\ \E r \in {"ok", "err"} :
       /\ Inject(r)
       /\ IF r = "ok"
          THEN /\ files' = upsert_file(p)
               /\ tasks' = [tasks EXCEPT ![p].st = "delete",
                               ![p].fid = (CHOOSE f \in FindFile(upsert_file(p), p) : TRUE).id]
          ELSE /\ files' = files
               /\ tasks' = Fail(p)
    /\ UNCHANGED <<disk, excelData, unreadable>>
    /\ UNCHANGED coordVars

\* Mutation of delete_file_data: a delete without its filter on file_id.
delete_file_data_all(fid) == {}

\* Mutation of delete_file_data: nothing is deleted.
delete_file_data_none(fid) == excelData

\* The excel_data table after delete_file_data(file_id): a delete_many run
\* on the connection itself, committed as it returns.
delete_file_data(fid) == excelData \ RowsOf(excelData, fid)

TaskDelete(p) ==
    /\ tasks[p].st = "delete"
    /\ \E r \in {"ok", "err"} :
       /\ Inject(r)
       /\ IF r = "ok"
          THEN /\ excelData' = delete_file_data(tasks[p].fid)
               /\ tasks' = [tasks EXCEPT ![p].st = "read"]
          ELSE /\ excelData' = excelData
               /\ tasks' = Fail(p)
    /\ UNCHANGED <<disk, files, unreadable>>
    /\ UNCHANGED coordVars

\* read_excel_file.  (update_file_field_order, which follows it, writes only
\* the field_order and updated_at columns, which the model does not hold, and
\* its failure is only logged.)  A workbook without data sheets ends the task
\* with Ok(()).
TaskRead(p) ==
    /\ tasks[p].st = "read"
    /\ \E r \in {"ok", "err"} :
       /\ Inject(r)
       /\ tasks' = IF r = "err" THEN Fail(p)
                   ELSE IF Len(read_excel_file(disk[p])) = 0
                   THEN [tasks EXCEPT ![p].st = "ok"]
                   ELSE [tasks EXCEPT ![p].st = "insert", ![p].sheet = 1]
    /\ UNCHANGED <<disk, files, excelData, unreadable>>
    /\ UNCHANGED coordVars

\* The excel_data table after insert_excel_data committed one sheet: the
\* transaction of that call holds the rows of that one sheet only.
insert_excel_data(fid, sh, now) == excelData \cup SheetRecords(fid, sh, now)

\* Mutation of insert_failed: every row is committed as it is inserted.
insert_failed_autocommit(fid, sh, now, j) ==
    excelData \cup {r \in SheetRecords(fid, sh, now) : r.row_number < j}

\* The excel_data table after an insert_excel_data that failed at row j of
\* the sheet (at the commit for j = n + 1): the call returns the error, the
\* transaction is dropped uncommitted and the rows inserted in it are gone.
insert_failed(fid, sh, now, j) == excelData

\* insert_excel_data for the next sheet: its own transaction, committed at
\* the end; a failed row insert returns the error, the transaction is dropped
\* and the task ends with that error.
TaskInsertSheet(p) ==
    /\ tasks[p].st = "insert"
    /\ \E r \in {"ok", "err"} :
       /\ Inject(r)
       /\ LET sheets == read_excel_file(disk[p])
              k == tasks[p].sheet IN
          IF r = "ok"
          THEN /\ excelData' = insert_excel_data(tasks[p].fid, sheets[k], run)
               /\ tasks' = IF k = Len(sheets)
                           THEN [tasks EXCEPT ![p].st = "ok"]
                           ELSE [tasks EXCEPT ![p].sheet = k + 1]
          ELSE /\ \E j \in 1..(Len(sheets[k][2]) + 1) :
                      excelData' = insert_failed(tasks[p].fid, sheets[k], run, j)
               /\ tasks' = Fail(p)
    /\ UNCHANGED <<disk, files, unreadable>>
    /\ UNCHANGED coordVars

\* A task that panics: join_next() reports a JoinError for it.
TaskCrash(p) ==
    /\ InFlight(p)
    /\ Inject("crash")
    /\ tasks' = [tasks EXCEPT ![p].st = "crash"]
    /\ UNCHANGED <<disk, files, excelData, unreadable>>
    /\ UNCHANGED coordVars

TaskStep ==
    \E p \in Paths :
        \/ TaskCheck(p)
        \/ TaskMeta(p)
        \/ TaskDelete(p)
        \/ TaskRead(p)
        \/ TaskInsertSheet(p)
        \/ TaskCrash(p)

Next ==
    \/ BeginImport
    \/ CheckNext
    \/ EndCheck
    \/ SpawnBatch
    \/ JoinNext
    \/ EndBatch
    \/ StartServer
    \/ Request
    \/ Exit
    \/ EditFile
    \/ TaskStep

Spec == Init /\ [][Next]_vars

\* The run under a fair scheduler: the coordinator goes on whenever it can
\* (tokio polls the future that main awaits), and every spawned task that
\* can take a step takes one in the end, none of them stalling for ever.
Coordinator == CheckNext \/ EndCheck \/ SpawnBatch \/ JoinNext \/ EndBatch
TaskOf(p) ==
    \/ TaskCheck(p)
    \/ TaskMeta(p)
    \/ TaskDelete(p)
    \/ TaskRead(p)
    \/ TaskInsertSheet(p)
    \/ TaskCrash(p)
LiveSpec ==
    /\ Init
    /\ [][Next]_vars
    /\ WF_vars(Coordinator)
    /\ \A p \in Paths : WF_vars(TaskOf(p))

\* ================================================================== search
\* Texts are sequences of characters (one-character strings).
MaxLimit == 2          \* largest limit asked for
MaxOffset == 2         \* largest offset asked for

IsSpace(ch) == ch = " "

\* str::contains: k occurs in t as a contiguous run.
Contains(t, k) ==
    \E i \in 0..(Len(t) - Len(k)) : \A j \in 1..Len(k) : t[i + j] = k[j]

\* The length of the first run of non-space characters of a text that starts
\* with one.
RECURSIVE WordLen(_)
WordLen(t) == IF t = <<>> \/ IsSpace(Head(t)) THEN 0 ELSE 1 + WordLen(Tail(t))

\* Mutation of split_whitespace: split(' ') with no filter, which cuts at
\* every single space and keeps the empty pieces.
RECURSIVE split_on_space(_)
split_on_space(t) ==
    IF \A i \in DOMAIN t : ~IsSpace(t[i]) THEN <<t>>
    ELSE <<SubSeq(t, 1, WordLen(t))>> \o
         split_on_space(SubSeq(t, WordLen(t) + 2, Len(t)))

\* query_text.trim().split_whitespace().filter(|k| !k.is_empty())
RECURSIVE split_whitespace(_)
split_whitespace(t) ==
    IF t = <<>> THEN <<>>
    ELSE IF IsSpace(Head(t)) THEN split_whitespace(Tail(t))
    ELSE <<SubSeq(t, 1, WordLen(t))>> \o
         split_whitespace(SubSeq(t, WordLen(t) + 1, Len(t)))

\* str::trim
RECURSIVE TrimStart(_)
TrimStart(t) == IF t # <<>> /\ IsSpace(Head(t)) THEN TrimStart(Tail(t)) ELSE t
RECURSIVE TrimEnd(_)
TrimEnd(t) ==
    IF t # <<>> /\ IsSpace(t[Len(t)]) THEN TrimEnd(SubSeq(t, 1, Len(t) - 1)) ELSE t
Trim(t) == TrimEnd(TrimStart(t))

\* The characters clean_row_data removes: NUL, BOM, the zero-width space and
\* joiners, and the control characters that are not whitespace.
Removed == {"\\0", "\\uFEFF", "\\u200B", "\\u200C", "\\u200D", "\\x01"}
clean_string(t) == Trim(SelectSeq(t, LAMBDA ch : ch \notin Removed))

\* Cell values: serde_json::Value::{Null, Bool, Number, String}.  A number is
\* held by its decimal digits: ip before the point (no leading zero but "0"
\* itself), fp after it (no trailing zero; empty for an integer).
Null == [t |-> "null"]
Str(chars) == [t |-> "str", s |-> chars]
Num(ip, fp) == [t |-> "num", ip |-> ip, fp |-> fp]

\* serde_json's Display of a Number made by from_f64 (below 1e15 in size):
\* an integer value prints with ".0".
number_to_string(n) == n.ip \o <<".">> \o (IF n.fp = <<>> THEN <<"0">> ELSE n.fp)

\* One value's part of the search text.
search_part(v) ==
    CASE v.t = "str" -> v.s
      [] v.t = "num" -> number_to_string(v)
      [] v.t = "bool" -> IF v.b THEN <<"t", "r", "u", "e">> ELSE <<"f", "a", "l", "s", "e">>
      [] OTHER -> <<>>

\* The elements of s at the positions I, in the order of s.
RECURSIVE Pick(_, _)
Pick(s, I) ==
    IF I = {} THEN <<>>
    ELSE LET m == CHOOSE i \in I : \A j \in I : i <= j
         IN  <<s[m]>> \o Pick(s, I \ {m})

\* clean_row_data on a row, given as its <<key, value>> entries in the order
\* the map is drained in: keys and string values cleaned, entries whose key
\* became empty dropped, and of the entries whose keys became one key the one
\* inserted last kept.
clean_value(v) == IF v.t = "str" THEN Str(clean_string(v.s)) ELSE v
clean_row_data(row) ==
    LET cleaned == [i \in DOMAIN row |->
                       <<clean_string(row[i][1]), clean_value(row[i][2])>>]
        kept == {i \in DOMAIN cleaned :
                    /\ cleaned[i][1] # <<>>
                    /\ \A j \in DOMAIN cleaned : j > i => cleaned[j][1] # cleaned[i][1]}
    IN  Pick(cleaned, kept)

\* search_parts.join(" ")
RECURSIVE JoinSpace(_)
JoinSpace(parts) ==
    IF parts = <<>> THEN <<>>
    ELSE IF Len(parts) = 1 THEN parts[1]
    ELSE parts[1] \o <<" ">> \o JoinSpace(Tail(parts))

\* The search text of a cleaned row whose map hands out its entries in the
\* order given.
search_text_of(row) == JoinSpace([i \in DOMAIN row |-> search_part(row[i][2])])

\* Mutation of excel_record: the search text is built before the row is
\* cleaned.
excel_record_raw_text(id, fid, sheet, index, row_data, now) ==
    [id |-> id, file_id |-> fid, sheet_name |-> sheet, row_number |-> index + 1,
     data_json |-> Range(clean_row_data(row_data)),
     search_text |-> search_text_of(row_data),
     import_time |-> now]

\* The record insert_excel_data builds for the row at position index of a
\* sheet; the entries of row_data come in the order its map iterates in.
excel_record(id, fid, sheet, index, row_data, now) ==
    [id |-> id, file_id |-> fid, sheet_name |-> sheet, row_number |-> index + 1,
     data_json |-> Range(clean_row_data(row_data)),
     search_text |-> search_text_of(clean_row_data(row_data)),
     import_time |-> now]

\* Mutation of RowMatches: every keyword has to occur (Condition::all).
RowMatchesAll(text, keywords) ==
    \A i \in DOMAIN keywords : Contains(text, keywords[i])

\* The LIKE of the store: in the pattern % stands for any run of characters,
\* _ for any one character, a backslash takes the character after it as it
\* is, and every other character stands for itself.
RECURSIVE LikeMatch(_, _)
LikeMatch(t, pat) ==
    IF pat = <<>> THEN t = <<>>
    ELSE IF pat = <<"%">> THEN TRUE
    ELSE IF Head(pat) = "%"
    THEN \E i \in 0..Len(t) : LikeMatch(SubSeq(t, i + 1, Len(t)), Tail(pat))
    ELSE IF Head(pat) = "_"
    THEN t # <<>> /\ LikeMatch(Tail(t), Tail(pat))
    ELSE IF Head(pat) = "\\" /\ Len(pat) >= 2
    THEN t # <<>> /\ Head(t) = pat[2] /\ LikeMatch(Tail(t), Tail(Tail(pat)))
    ELSE t # <<>> /\ Head(t) = Head(pat) /\ LikeMatch(Tail(t), Tail(pat))

\* Column::SearchText.contains(k): search_text LIKE '%k%', the keyword put
\* into the pattern as it is.  (A keyword without a character that LIKE
\* reads specially matches where it occurs, which is computed directly.)
LikeSpecial == {"%", "_", "\\"}
sql_contains(text, k) ==
    IF Range(k) \cap LikeSpecial = {} THEN Contains(text, k)
    ELSE LikeMatch(text, <<"%">> \o k \o <<"%">>)

\* The filter of search_data: Condition::any() over one contains per keyword.
RowMatches(text, keywords) ==
    \E i \in DOMAIN keywords : sql_contains(text, keywords[i])

\* The relevance score: one per keyword of the list that occurs, plus the
\* number of keywords when query_text itself occurs.
RECURSIVE KeywordHits(_, _)
KeywordHits(text, keywords) ==
    IF keywords = <<>> THEN 0
    ELSE (IF Contains(text, Head(keywords)) THEN 1 ELSE 0)
         + KeywordHits(text, Tail(keywords))
Score(text, keywords, query_text) ==
    KeywordHits(text, keywords)
    + (IF Contains(text, query_text) THEN Len(keywords) ELSE 0)

\* Mutation of SortsBefore: the import time is not compared.
SortsBeforeScoreOnly(a, b) == a.score > b.score

\* The comparator of sort_by: a sorts before b.
SortsBefore(a, b) ==
    \/ a.score > b.score
    \/ a.score = b.score /\ a.row.import_time > b.row.import_time

\* slice::sort_by is stable: an element goes before the first one it sorts
\* before, and after everything else.
RECURSIVE InsertSorted(_, _)
InsertSorted(sorted, x) ==
    IF sorted = <<>> THEN <<x>>
    ELSE IF SortsBefore(x, Head(sorted)) THEN <<x>> \o sorted
    ELSE <<Head(sorted)>> \o InsertSorted(Tail(sorted), x)
RECURSIVE StableSort(_)
StableSort(seq) ==
    IF seq = <<>> THEN <<>>
    ELSE InsertSorted(StableSort(SubSeq(seq, 1, Len(seq) - 1)), seq[Len(seq)])

\* .skip(offset).take(limit)
Paginate(seq, limit, offset) ==
    SubSeq(seq, offset + 1, IF offset + limit < Len(seq) THEN offset + limit ELSE Len(seq))

\* The orders in which the store can hand out the rows of a query that has no
\* ORDER BY.
StoreOrders(rows) ==
    {o \in [1..Cardinality(rows) -> rows] : \A i, j \in DOMAIN o : o[i] = o[j] => i = j}

\* search_data(query_text, limit, offset) over rows the store hands out in
\* the order ord.
search_data(query_text, limit, offset, ord) ==
    LET keywords == split_whitespace(Trim(query_text))
        matched == SelectSeq(ord, LAMBDA r : RowMatches(r.search_text, keywords))
        scored == [i \in DOMAIN matched |->
                      [row |-> matched[i],
                       score |-> Score(matched[i].search_text, keywords, query_text)]]
        page == Paginate(StableSort(scored), limit, offset)
    IN  IF keywords = <<>>
        THEN [query |-> query_text, limit |-> limit, offset |-> offset,
              results |-> <<>>, scores |-> <<>>, total |-> 0]
        ELSE [query |-> query_text, limit |-> limit, offset |-> offset,
              results |-> [i \in DOMAIN page |-> page[i].row],
              scores |-> [i \in DOMAIN page |-> page[i].score],
              total |-> Len(matched)]

\* The texts of the two-row sheet with the headers Name and ID.
Alice == <<"A", "l", "i", "c", "e">>
Bob == <<"B", "o", "b">>
Id0012345 == <<"0", "0", "1", "2", "3", "4", "5">>
NameKey == <<"N", "a", "m", "e">>
IdKey == <<"I", "D">>
AliceRow == <<<<NameKey, Str(Alice)>>, <<IdKey, Str(Id0012345)>>>>
BobRow == <<<<NameKey, Str(Bob)>>, <<IdKey, Num(<<"6", "7">>, <<>>)>>>>

\* The orders in which a row's map can iterate over its entries.
EntryOrders(row) ==
    {o \in [DOMAIN row -> Range(row)] : \A i, j \in DOMAIN o : o[i] = o[j] => i = j}

\* The stores that hold the two rows of that sheet, imported as file 1.
ScenarioStores ==
    {{excel_record(1, 1, 1, 0, a, 1), excel_record(2, 1, 1, 1, b, 1)} :
        a \in EntryOrders(AliceRow), b \in EntryOrders(BobRow)}

\* The queries asked.
Queries ==
    {Alice, Bob, Alice \o <<" ">> \o Bob, Bob \o <<" ">> \o Alice,
     <<>>, <<" ">>, Id0012345, <<"6", "7">>, Alice \o <<" ">> \o Id0012345,
     <<" ">> \o Alice, <<"b">>, <<"C", "a", "r", "o", "l">>, <<"B", "_", "b">>}

SearchInit ==
    /\ disk = [p \in Paths |-> 1]
    /\ files = {[id |-> 1, file_path |-> 1, file_name |-> file_name(1),
                 file_hash |-> generate_file_hash(1)]}
    /\ excelData \in ScenarioStores
    /\ pc = "returned"
    /\ run = 1
    /\ root = "dir"
    /\ force = FALSE
    /\ chunk = 1
    /\ excelFiles = <<>>
    /\ idx = 1
    /\ toProcess = <<>>
    /\ chunkStart = 1
    /\ stats = ZeroStats
    /\ result = "ok"
    /\ tasks = [p \in Paths |-> NoTask]
    /\ faults = 0
    /\ checkRes = [p \in Paths |-> "none"]
    /\ pre = [files |-> {}, excelData |-> {}]
    /\ unreadable = NoFault
    /\ max_concurrent_files = 0
    /\ requests = 0
    /\ resp = NoResp
    /\ Idle

\* A client that pages through a query asks offset 0 first and then, with the
\* same query and limit, the offset after the page it got; pages keeps the
\* result lists it was handed so far (empty when the call is not such a one).
next_pages(r) ==
    IF r.offset = 0 THEN <<r.results>>
    ELSE IF /\ pages # <<>>
            /\ r.query = resp.query
            /\ r.limit = resp.limit
            /\ r.offset = resp.offset + resp.limit
    THEN Append(pages, r.results)
    ELSE <<>>

\* One call of search_data for a query of qs; every call queries the store
\* again, and the store hands out the rows in an order of its own.
SearchFor(qs) ==
    /\ \E q \in qs, l \in 0..MaxLimit, o \in 0..MaxOffset,
          ord \in StoreOrders(excelData) :
          LET r == search_data(q, l, o, ord) IN
          /\ resp' = r
          /\ pages' = next_pages(r)
    /\ workbook' = NoWorkbook
    /\ UNCHANGED <<disk, files, excelData, tasks, faults, pc, run, root, force,
                   chunk, excelFiles, idx, toProcess, chunkStart, stats, result,
                   checkRes, pre, name, sanitized, cell_str, value, unreadable,
                   max_concurrent_files, requests, stats_cache, clock, stats_req>>

Search == SearchFor(Queries)

SearchNext == Search

SearchSpec == SearchInit /\ [][SearchNext]_vars

\* ============================================================== sheet names
MaxRun == 20           \* longest run of one ASCII letter in a file name
MaxWide == 11          \* longest run of three-byte characters in a file name

MaxSheetNameLen == 31  \* sanitized.len() > 31
KeepLen == 28          \* sanitized.truncate(28)

\* char::len_utf8
Utf8Len(ch) == IF ch = WideChar THEN 3 ELSE 1

\* str::len: the length in bytes.
RECURSIVE ByteLen(_)
ByteLen(t) == IF t = <<>> THEN 0 ELSE Utf8Len(Head(t)) + ByteLen(Tail(t))

Forbidden == {"\\", "/", "?", "*", "[", "]", ":"}
Ellipsis == <<".", ".", ".">>
Sheet1 == <<"S", "h", "e", "e", "t", "1">>
Panic == [t |-> "panic"]

\* String::truncate(n): the first n bytes; it panics when byte n is not a
\* character boundary.
truncate(t, n) ==
    LET cuts == {k \in 0..Len(t) : ByteLen(SubSeq(t, 1, k)) = n} IN
    IF cuts = {} THEN Panic ELSE Str(SubSeq(t, 1, CHOOSE k \in cuts : TRUE))

\* sanitize_sheet_name
sanitize_sheet_name(nm) ==
    LET stripped == SelectSeq(nm, LAMBDA ch : ch \notin Forbidden)
        cut == IF ByteLen(stripped) > MaxSheetNameLen
               THEN truncate(stripped, KeepLen)
               ELSE Str(stripped)
    IN  IF cut = Panic THEN Panic
        ELSE IF ByteLen(stripped) > MaxSheetNameLen THEN Str(cut.s \o Ellipsis)
        ELSE IF stripped = <<>> THEN Str(Sheet1)
        ELSE Str(stripped)

Rep(ch, n) == [i \in 1..n |-> ch]

\* The names tried: letters, three-byte characters and forbidden characters.
Names ==
    {Rep("a", i) \o Rep("/", j) \o Rep(WideChar, k) \o Rep(":", m) \o Rep("b", n) :
        i \in 0..MaxRun, j \in 0..1, k \in {0, 1, MaxWide - 1, MaxWide},
        m \in 0..1, n \in {0, 1, MaxRun - 1, MaxRun}}

SanitizeInit ==
    /\ disk = [p \in Paths |-> 1]
    /\ files = {}
    /\ excelData = {}
    /\ pc = "returned"
    /\ run = 1
    /\ root = "dir"
    /\ force = FALSE
    /\ chunk = 1
    /\ excelFiles = <<>>
    /\ idx = 1
    /\ toProcess = <<>>
    /\ chunkStart = 1
    /\ stats = ZeroStats
    /\ result = "ok"
    /\ tasks = [p \in Paths |-> NoTask]
    /\ faults = 0
    /\ checkRes = [p \in Paths |-> "none"]
    /\ pre = [files |-> {}, excelData |-> {}]
    /\ unreadable = NoFault
    /\ max_concurrent_files = 0
    /\ requests = 0
    /\ resp = NoResp
    /\ pages = <<>>
    /\ workbook = NoWorkbook
    /\ name \in Names
    /\ sanitized = NoValue
    /\ cell_str = <<>>
    /\ value = NoValue
    /\ CacheIdle

\* One call of sanitize_sheet_name.
Sanitize ==
    /\ sanitized = NoValue
    /\ sanitized' = sanitize_sheet_name(name)
    /\ UNCHANGED <<disk, files, excelData, tasks, faults, pc, run, root, force,
                   chunk, excelFiles, idx, toProcess, chunkStart, stats, result,
                   checkRes, pre, resp, pages, workbook, name, cell_str, value, unreadable,
                   max_concurrent_files, requests, stats_cache, clock, stats_req>>

SanitizeNext == Sanitize

SanitizeSpec == SanitizeInit /\ [][SanitizeNext]_vars

\* ================================================================== export
\* The sets of paths earlier runs imported into the store.
StoredSets == {{1}, {2}, {3}, {1, 2}, {1, 3}, {2, 3}}

\* A store after earlier runs imported the paths of one of these sets.  The
\* workbook of an odd path has the rows Alice and "Alice Bob", that of an
\* even path the rows Bob and Alice, all in one sheet with the one column
\* Name; path p was imported at time p.
AliceBobText == Alice \o <<" ">> \o Bob
StoredRows(p) ==
    IF p % 2 = 1
    THEN <<<< <<NameKey, Str(Alice)>> >>, << <<NameKey, Str(AliceBobText)>> >>>>
    ELSE <<<< <<NameKey, Str(Bob)>> >>, << <<NameKey, Str(Alice)>> >>>>
StoredFile(p) ==
    [id |-> p, file_path |-> p, file_name |-> file_name(p),
     file_hash |-> generate_file_hash(1)]
StoredData(p) ==
    {excel_record(2 * (p - 1) + i, p, 1, i - 1, StoredRows(p)[i], p) :
        i \in DOMAIN StoredRows(p)}

\* find_also_related(files::Entity): the file record a row belongs to.
FileOf(r) == CHOOSE f \in files : f.id = r.file_id

\* export_search_results(query_text) over rows the store hands out in the
\* order ord: the rows are matched, scored and sorted as in search_data, then
\* grouped under file_name (the key of grouped_data), one worksheet a group,
\* named by sanitize_sheet_name; the workbook holds the worksheets in the
\* order the map iterates in, so they are kept as a set here.  Saving a
\* workbook in which two worksheets have one name is an error.
export_search_results(query_text, ord) ==
    LET keywords == split_whitespace(Trim(query_text))
        matched == SelectSeq(ord, LAMBDA r : RowMatches(r.search_text, keywords))
        scored == [i \in DOMAIN matched |->
                      [row |-> matched[i],
                       score |-> Score(matched[i].search_text, keywords, query_text)]]
        sorted == StableSort(scored)
        rows == [i \in DOMAIN sorted |-> sorted[i].row]
        keys == {FileOf(rows[i]).file_name : i \in DOMAIN rows}
        group(k) == SelectSeq(rows, LAMBDA r : FileOf(r).file_name = k)
        sheets == {[key |-> k, name |-> sanitize_sheet_name(k), rows |-> group(k)] :
                      k \in keys}
    IN  IF keywords = <<>> THEN [status |-> "err", why |-> "empty query"]
        ELSE IF matched = <<>> THEN [status |-> "err", why |-> "no match"]
        ELSE IF \E sh \in sheets : sh.name = Panic THEN [status |-> "panic"]
        ELSE IF \E a, b \in sheets : a # b /\ a.name = b.name
        THEN [status |-> "err", why |-> "sheet name reused"]
        ELSE [status |-> "ok",
              sheets |-> {[name |-> sh.name.s, rows |-> sh.rows] : sh \in sheets}]

QueryInit ==
    /\ disk = [p \in Paths |-> 1]
    /\ \E stored \in StoredSets :
          /\ files = {StoredFile(p) : p \in stored}
          /\ excelData = UNION {StoredData(p) : p \in stored}
    /\ pc = "returned"
    /\ run = 1
    /\ root = "dir"
    /\ force = FALSE
    /\ chunk = 1
    /\ excelFiles = <<>>
    /\ idx = 1
    /\ toProcess = <<>>
    /\ chunkStart = 1
    /\ stats = ZeroStats
    /\ result = "ok"
    /\ tasks = [p \in Paths |-> NoTask]
    /\ faults = 0
    /\ checkRes = [p \in Paths |-> "none"]
    /\ pre = [files |-> {}, excelData |-> {}]
    /\ unreadable = NoFault
    /\ max_concurrent_files = 0
    /\ requests = 0
    /\ resp = NoResp
    /\ Idle

\* The queries asked of these stores.
StoredQueries ==
    {Alice, Bob, AliceBobText, Alice \o <<" ">> \o Alice, <<>>, <<" ">>,
     <<"C", "a", "r", "o", "l">>}

PagedSearch == SearchFor(StoredQueries)

\* One call of export_search_results.
Export ==
    /\ \E q \in StoredQueries, ord \in StoreOrders(excelData) :
          workbook' = [query |-> q, out |-> export_search_results(q, ord)]
    /\ resp' = NoResp
    /\ pages' = <<>>
    /\ UNCHANGED <<disk, files, excelData, tasks, faults, pc, run, root, force,
                   chunk, excelFiles, idx, toProcess, chunkStart, stats, result,
                   checkRes, pre, name, sanitized, cell_str, value, unreadable,
                   max_concurrent_files, requests, stats_cache, clock, stats_req>>

QueryNext ==
    \/ PagedSearch
    \/ Export

QuerySpec == QueryInit /\ [][QueryNext]_vars

\* ============================================================ written rows
MaxSheetRows == 1      \* data rows of the one sheet a workbook holds

\* Rows as read_excel_file hands them over: a value with a NUL inside and a
\* number; a value with spaces around it and an empty cell; two headers that
\* clean to one key; a header that cleans to nothing and a number with a
\* fraction.
RawRows ==
    {<< <<NameKey, Str(<<"A", "\\0", "l">>)>>, <<IdKey, Num(<<"6", "7">>, <<>>)>> >>,
     << <<NameKey, Str(<<" ">> \o Bob \o <<" ">>)>>, <<IdKey, Null>> >>,
     << <<NameKey, Str(Bob)>>, <<NameKey \o <<"\\uFEFF">>, Str(Alice)>> >>,
     << << <<"\\0">>, Str(Alice)>>, <<IdKey, Num(<<"1">>, <<"5">>)>> >>}

\* The same rows in every order their maps can iterate in, and the sheets made
\* of them.
RowsData == UNION {EntryOrders(row) : row \in RawRows}
SheetsData == UNION {[1..n -> RowsData] : n \in 1..MaxSheetRows}

\* The greatest id the excel_data table holds (0 for none): the SERIAL column
\* hands out greater ones.
LastId(tbl) ==
    IF tbl = {} THEN 0 ELSE CHOOSE n \in {r.id : r \in tbl} : \A r \in tbl : r.id <= n

WriteInit ==
    /\ disk = [p \in Paths |-> 1]
    /\ files = {}
    /\ excelData = {}
    /\ pc = "join"
    /\ run = 1
    /\ root = "dir"
    /\ force = TRUE
    /\ chunk = NumFiles
    /\ excelFiles = [p \in Paths |-> p]
    /\ idx = NumFiles + 1
    /\ toProcess = [p \in Paths |-> p]
    /\ chunkStart = 1
    /\ stats = [ZeroStats EXCEPT !.total = NumFiles]
    /\ result = "none"
    /\ tasks = [p \in Paths |-> NoTask]
    /\ faults = 0
    /\ checkRes = [p \in Paths |-> "forced"]
    /\ pre = [files |-> {}, excelData |-> {}]
    /\ unreadable = NoFault
    /\ max_concurrent_files = NumFiles
    /\ requests = 0
    /\ resp = NoResp
    /\ Idle

\* process_single_file for p from the metadata to the last insert, as one
\* step: the record is written, the rows of the file are deleted, and the
\* rows of its sheet are written by insert_excel_data, or the read or the
\* insert fails and nothing is written after the delete.
ImportFile(p) ==
    /\ tasks[p].st = "none"
    /\ \E r \in {"ok", "err"}, rows \in SheetsData :
          LET fid == (CHOOSE f \in FindFile(upsert_file(p), p) : TRUE).id
              last == LastId(excelData)
          IN  /\ files' = upsert_file(p)
              /\ excelData' =
                    IF r = "ok"
                    THEN delete_file_data(fid) \cup
                         {excel_record(last + i, fid, 1, i - 1, rows[i], run) :
                             i \in DOMAIN rows}
                    ELSE delete_file_data(fid)
              /\ tasks' = [tasks EXCEPT ![p].st = r, ![p].fid = fid]
    /\ UNCHANGED <<disk, faults>>
    /\ UNCHANGED coordVars

\* The next run of the process, at the same point.
NextRun ==
    /\ run < MaxRuns
    /\ run' = run + 1
    /\ tasks' = [p \in Paths |-> NoTask]
    /\ pre' = [files |-> files, excelData |-> excelData]
    /\ UNCHANGED <<queryVars, faults, disk, files, excelData, pc, root, force, chunk,
                   excelFiles, idx, toProcess, chunkStart, stats, result, checkRes,
                   unreadable, max_concurrent_files, requests>>

WriteNext ==
    \/ \E p \in Paths : ImportFile(p)
    \/ NextRun

WriteSpec == WriteInit /\ [][WriteNext]_vars

\* ========================================================= statistics cache
MaxClock == 400        \* seconds the server is watched for
MaxStatsRequests == 4  \* requests for /api/stats in that time

cache_duration == 300  \* Duration::from_secs(300)

\* What the statistics handler and the passing of time leave alone.
CacheFrame ==
    UNCHANGED <<disk, files, excelData, tasks, faults, pc, run, root, force,
                   chunk, excelFiles, idx, toProcess, chunkStart, stats, result,
                   checkRes, pre, unreadable, max_concurrent_files, requests,
                   resp, pages, workbook, name, sanitized, cell_str, value>>

\* The seconds that pass between two steps of the server.
Ticks == {100, 101}

\* Mutation of is_expired: a value once set is never too old.
is_expired_unset(c, now) == c.last_updated = <<>>

\* StatsCache::is_expired at the time now
is_expired(c, now) ==
    IF c.last_updated = <<>> THEN TRUE
    ELSE now - c.last_updated[1] > cache_duration

\* StatsCache::get
cache_get(c, now) == IF is_expired(c, now) THEN <<>> ELSE c.data

\* StatsCache::update
cache_update(c, data, now) == [data |-> <<data>>, last_updated |-> <<now>>]

\* get_statistics: the rows, the files and the latest import time, which is
\* the time of the call when there is no row.
LatestImport(tbl) ==
    CHOOSE t \in {r.import_time : r \in tbl} : \A r \in tbl : r.import_time <= t
get_statistics(now) ==
    [total_rows |-> Cardinality(excelData),
     total_files |-> Cardinality(files),
     last_update |-> IF excelData = {} THEN now ELSE LatestImport(excelData)]

\* The server runs over an empty store or over the rows of one file.
CacheInit ==
    /\ disk = [p \in Paths |-> 1]
    /\ \E stored \in {{}, {1}} :
          /\ files = {StoredFile(p) : p \in stored}
          /\ excelData = UNION {StoredData(p) : p \in stored}
          /\ pre = [files |-> {StoredFile(p) : p \in stored},
                    excelData |-> UNION {StoredData(p) : p \in stored}]
    /\ pc = "serving"
    /\ run = 1
    /\ root = "dir"
    /\ force = FALSE
    /\ chunk = 1
    /\ excelFiles = <<>>
    /\ idx = 1
    /\ toProcess = <<>>
    /\ chunkStart = 1
    /\ stats = ZeroStats
    /\ result = "ok"
    /\ tasks = [p \in Paths |-> NoTask]
    /\ faults = 0
    /\ checkRes = [p \in Paths |-> "none"]
    /\ unreadable = NoFault
    /\ max_concurrent_files = 0
    /\ requests = 0
    /\ resp = NoResp
    /\ Idle

Answer(from, data) == [from |-> from, value |-> data, at |-> clock]

\* stats_handler up to its await: the cache is locked and asked; a value is
\* answered at once, and else the handler goes on to get_statistics.
StatsBegin ==
    /\ Len(stats_req.log) + stats_req.computing < MaxStatsRequests
    /\ IF cache_get(stats_cache, clock) # <<>>
       THEN stats_req' = [stats_req EXCEPT
                !.log = Append(@, Answer("cache", cache_get(stats_cache, clock)))]
       ELSE stats_req' = [stats_req EXCEPT !.computing = @ + 1]
    /\ UNCHANGED <<stats_cache, clock>>
    /\ CacheFrame

\* stats_handler after get_statistics returned: Ok is put into the cache and
\* answered, Err is answered with status 500 and no value.
StatsEnd ==
    /\ stats_req.computing > 0
    /\ \E r \in {"ok", "err"} :
          IF r = "ok"
          THEN /\ stats_cache' = cache_update(stats_cache, get_statistics(clock), clock)
               /\ stats_req' = [log |-> Append(stats_req.log,
                                               Answer("fresh", <<get_statistics(clock)>>)),
                                computing |-> stats_req.computing - 1]
          ELSE /\ stats_cache' = stats_cache
               /\ stats_req' = [log |-> Append(stats_req.log, Answer("error", <<>>)),
                                computing |-> stats_req.computing - 1]
    /\ clock' = clock
    /\ CacheFrame

\* Time passes.
Tick ==
    /\ \E d \in Ticks :
          /\ clock + d <= MaxClock
          /\ clock' = clock + d
    /\ UNCHANGED <<stats_cache, stats_req>>
    /\ CacheFrame

CacheNext ==
    \/ StatsBegin
    \/ StatsEnd
    \/ Tick

CacheSpec == CacheInit /\ [][CacheNext]_vars

\* ================================================================ coercion
MaxCellLen == 3        \* longest cell text built from CellChars
MaxNumberLen == 15     \* cell_str.len() > 15

Digits == {"0", "1", "2", "3", "4", "5", "6", "7", "8", "9"}
NumberChars == Digits \cup {".", "-", "+"}

\* The position of the first "." of a text, 0 when it has none.
DotPos(t) ==
    IF \E i \in DOMAIN t : t[i] = "."
    THEN CHOOSE i \in DOMAIN t : t[i] = "." /\ \A j \in 1..(i - 1) : t[j] # "."
    ELSE 0

\* str::parse::<f64> on a text of digits, signs and points: an optional sign,
\* then digits with at most one point and at least one digit.  The result is
\* held by its sign and the digits before and after the point.  (Within 15
\* characters an f64 keeps every such decimal apart, so the digits are exact.)
parse_f64(t) ==
    LET signed == t # <<>> /\ Head(t) \in {"-", "+"}
        body == IF signed THEN Tail(t) ELSE t
        dot == DotPos(body)
        ip == IF dot = 0 THEN body ELSE SubSeq(body, 1, dot - 1)
        fp == IF dot = 0 THEN <<>> ELSE SubSeq(body, dot + 1, Len(body))
    IN  IF /\ Range(ip) \cup Range(fp) \subseteq Digits
           /\ ip \o fp # <<>>
        THEN [ok |-> TRUE, neg |-> signed /\ Head(t) = "-", ip |-> ip, fp |-> fp]
        ELSE [ok |-> FALSE]

RECURSIVE StripLeadingZeros(_)
StripLeadingZeros(d) ==
    IF Len(d) > 1 /\ Head(d) = "0" THEN StripLeadingZeros(Tail(d)) ELSE d
RECURSIVE StripTrailingZeros(_)
StripTrailingZeros(d) ==
    IF d # <<>> /\ d[Len(d)] = "0"
    THEN StripTrailingZeros(SubSeq(d, 1, Len(d) - 1)) ELSE d

\* The digits of the parsed number: no leading zero before the point but a
\* lone 0, no trailing zero after it, the sign in front.
IntDigits(n) ==
    (IF n.neg THEN <<"-">> ELSE <<>>)
    \o (IF n.ip = <<>> THEN <<"0">> ELSE StripLeadingZeros(n.ip))
FracDigits(n) == StripTrailingZeros(n.fp)

\* f64::to_string: no exponent, no point for a whole number.
f64_to_string(n) ==
    IntDigits(n) \o (IF FracDigits(n) = <<>> THEN <<>> ELSE <<".">> \o FracDigits(n))

\* num.fract() == 0.0
fract_is_zero(n) == FracDigits(n) = <<>>

\* str::replace(".0", "")
RECURSIVE remove_dot_zero(_)
remove_dot_zero(t) ==
    IF Len(t) < 2 THEN t
    ELSE IF t[1] = "." /\ t[2] = "0" THEN remove_dot_zero(SubSeq(t, 3, Len(t)))
    ELSE <<Head(t)>> \o remove_dot_zero(Tail(t))

\* Mutation of too_long: no limit on the length.
too_long_never(t) == FALSE

\* cell_str.len() > 15
too_long(t) == Len(t) > MaxNumberLen

\* cell_str.len() > 1 && cell_str.starts_with('0') && !cell_str.contains('.')
leading_zero(t) == Len(t) > 1 /\ Head(t) = "0" /\ DotPos(t) = 0

\* The value read_excel_file makes of a cell's text.
coerce_cell(t) ==
    IF t = <<>> THEN Null
    ELSE IF ~(Range(t) \subseteq NumberChars) THEN Str(t)
    ELSE IF too_long(t) \/ leading_zero(t) THEN Str(t)
    ELSE IF ~parse_f64(t).ok THEN Str(t)
    ELSE LET num == parse_f64(t) IN
         IF \/ f64_to_string(num) = t
            \/ fract_is_zero(num) /\ remove_dot_zero(f64_to_string(num)) = t
         THEN Num(IntDigits(num), FracDigits(num))
         ELSE Str(t)

\* The cell texts tried: every text of up to MaxCellLen of these characters,
\* the texts of the spec's examples, and runs of a digit around the limit.
CellChars == {"0", "1", "5", ".", "-", "+", "a"}
Cell0012345 == <<"0", "0", "1", "2", "3", "4", "5">>
Cell123p45 == <<"1", "2", "3", ".", "4", "5">>
Cell67 == <<"6", "7">>
Cells ==
    UNION {[1..n -> CellChars] : n \in 0..MaxCellLen}
    \cup {Cell0012345, Cell123p45, Cell67}
    \cup {Rep("1", n) : n \in (MaxNumberLen - 1)..(MaxNumberLen + 2)}
    \cup {<<"0", ".">> \o Rep("5", n) : n \in (MaxNumberLen - 3)..MaxNumberLen}

CoerceInit ==
    /\ disk = [p \in Paths |-> 1]
    /\ files = {}
    /\ excelData = {}
    /\ pc = "returned"
    /\ run = 1
    /\ root = "dir"
    /\ force = FALSE
    /\ chunk = 1
    /\ excelFiles = <<>>
    /\ idx = 1
    /\ toProcess = <<>>
    /\ chunkStart = 1
    /\ stats = ZeroStats
    /\ result = "ok"
    /\ tasks = [p \in Paths |-> NoTask]
    /\ faults = 0
    /\ checkRes = [p \in Paths |-> "none"]
    /\ pre = [files |-> {}, excelData |-> {}]
    /\ unreadable = NoFault
    /\ max_concurrent_files = 0
    /\ requests = 0
    /\ resp = NoResp
    /\ pages = <<>>
    /\ workbook = NoWorkbook
    /\ name = <<>>
    /\ sanitized = NoValue
    /\ cell_str \in Cells
    /\ value = NoValue
    /\ CacheIdle

\* read_excel_file turns one cell into a value.
Coerce ==
    /\ value = NoValue
    /\ value' = coerce_cell(cell_str)
    /\ UNCHANGED <<disk, files, excelData, tasks, faults, pc, run, root, force,
                   chunk, excelFiles, idx, toProcess, chunkStart, stats, result,
                   checkRes, pre, resp, pages, workbook, name, sanitized, cell_str, unreadable,
                   max_concurrent_files, requests, stats_cache, clock, stats_req>>

CoerceNext == Coerce

CoerceSpec == CoerceInit /\ [][CoerceNext]_vars

\* ===================================================================== claims
\* What the claims speak about.
Checked(p) == checkRes[p] # "none"
Dispatched(p) == tasks[p].st # "none"
ToProcessSet == Range(toProcess)
SkippedSet == {p \in Paths : Checked(p) /\ p \notin ToProcessSet}
PreRows(p) == RowsOfPath(pre.files, pre.excelData, p)
CurRows(p) == RowsOfPath(files, excelData, p)
\* When the run started, p had a record whose fingerprint is that of p's bytes.
PreUnchanged(p) ==
    \E f \in FindFile(pre.files, p) : f.file_hash = generate_file_hash(disk[p])
\* When the run started, p had a record with another fingerprint.
PreDiffers(p) ==
    \E f \in FindFile(pre.files, p) : f.file_hash # generate_file_hash(disk[p])
Failed(p) == tasks[p].st \in {"err", "crash"}
\* The position of p in files_to_process, and the batch that holds it.
PosOf(p) == CHOOSE i \in 1..Len(toProcess) : toProcess[i] = p
BatchOf(p) == (PosOf(p) - 1) \div chunk
\* The number of data rows a content holds.
ParsedRowCount(c) == Cardinality(ContentRecords(0, c, 0))

\* What a skipped file looks like: counted in skipped, no task, record and rows
\* as they were when the run started.
SkippedUntouched(p) ==
    /\ p \in SkippedSet
    /\ stats.skipped = Cardinality(SkippedSet)
    /\ ~Dispatched(p)
    /\ FindFile(files, p) = FindFile(pre.files, p)
    /\ CurRows(p) = PreRows(p)

\* C1, as stated: without forceReimport, a discovered file whose record holds
\* the fingerprint of its current bytes is counted in skipped, gets no task,
\* and keeps its record and its rows.
C1_SkipOnUnchanged_Stated ==
    \A p \in Paths :
        (~force /\ Checked(p) /\ PreUnchanged(p)) => SkippedUntouched(p)

\* C1, amended: the same, for a file whose change check did not fail (a failed
\* check sends the file to processing, see C9).
C1_SkipOnUnchanged ==
    \A p \in Paths :
        (~force /\ checkRes[p] = "ok" /\ PreUnchanged(p)) => SkippedUntouched(p)

\* A run that returned with one unchanged file, which has rows, skipped.
C1_Witness ==
    /\ pc = "returned" /\ result = "ok" /\ ~force
    /\ stats.skipped = 1
    /\ \E p \in Paths :
          checkRes[p] = "ok" /\ PreUnchanged(p) /\ PreRows(p) # {} /\ p \in SkippedSet

\* C2: after a successful import of a file, the rows its record owns are
\* exactly the rows parsed from the content read in this run: none of an
\* earlier import remains, and their number is the number of parsed data rows.
C2_FullReplace ==
    \A p \in Paths :
        (tasks[p].st = "ok" /\ ~tasks[p].early) =>
            /\ \E f \in FindFile(files, p) : f.id = tasks[p].fid
            /\ CurRows(p) = ContentRecords(tasks[p].fid, disk[p], run)
            /\ \A r \in CurRows(p) : r.import_time = run
            /\ Cardinality(CurRows(p)) = ParsedRowCount(disk[p])

\* A file that had rows of another content is imported successfully.
C2_Witness ==
    \E p \in Paths :
        /\ tasks[p].st = "ok" /\ ~tasks[p].early
        /\ PreDiffers(p) /\ PreRows(p) # {}
        /\ CurRows(p) # {}

\* C3, as stated: a file whose processing failed still has all the rows it
\* owned before the run.
C3_NeverPartiallyReplaced ==
    \A p \in Paths :
        Failed(p) => RowsOfPath(pre.files, excelData, p) = PreRows(p)

\* C4, as stated: when the insert of a later sheet fails, no row of an earlier
\* sheet of the new content is in the store.
C4_NoSheetSplit ==
    \A p \in Paths :
        (tasks[p].st = "err" /\ tasks[p].sheet > 1) =>
            {r \in excelData : r.file_id = tasks[p].fid /\ r.import_time = run} = {}

\* C5: every failed task (error or crash) that was joined counts once in
\* failed, every successful one once in success, and a run that returned Ok
\* has processed and joined every file it had to process, whatever failed.
C5_FailureIsolation ==
    /\ stats.failed = Cardinality({p \in Paths : tasks[p].joined /\ Failed(p)})
    /\ stats.success = Cardinality({p \in Paths : tasks[p].joined /\ tasks[p].st = "ok"})
    /\ (pc = "returned" /\ result = "ok") =>
          /\ \A p \in ToProcessSet : tasks[p].st \in Finished /\ tasks[p].joined
          /\ stats.success + stats.failed = Len(toProcess)

\* A returned run in which one file failed and another one, of the same or of
\* a later batch, was imported.
C5_Witness ==
    /\ pc = "returned" /\ result = "ok"
    /\ stats.failed = 1 /\ stats.success = 1
    /\ \E p, q \in Paths :
          /\ Failed(p) /\ tasks[q].st = "ok" /\ ~tasks[q].early
          /\ BatchOf(p) < BatchOf(q)

\* C6: a task of a later batch is dispatched only when every task of every
\* earlier batch has finished; tasks in flight are all of one batch.
C6_BatchBarrier ==
    \A p, q \in ToProcessSet :
        /\ (Dispatched(q) /\ BatchOf(p) < BatchOf(q)) => tasks[p].st \in Finished
        /\ (InFlight(p) /\ InFlight(q)) => BatchOf(p) = BatchOf(q)

\* A task of the second batch is in flight.
C6_Witness ==
    \E p, q \in ToProcessSet : BatchOf(p) < BatchOf(q) /\ InFlight(q)

\* C7: with a root that does not exist or is no directory the run has
\* returned an error, scanned nothing, dispatched nothing and left the store
\* as it was.
C7_BadRootFailsFast ==
    root # "dir" =>
        /\ pc \in {"returned", "serving"} /\ result = "err"
        /\ excelFiles = <<>> /\ toProcess = <<>>
        /\ \A p \in Paths : ~Checked(p) /\ ~Dispatched(p)
        /\ files = pre.files /\ excelData = pre.excelData

\* A run on a bad root over a store that holds rows.
C7_Witness ==
    root # "dir" /\ result = "err" /\ excelData # {}

\* C8, as stated: a file whose fingerprint can be computed is processed iff it
\* has no record or its record holds another fingerprint; under forceReimport
\* every discovered file is processed.
C8_ChangeDecision_Stated ==
    \A p \in Paths :
        Checked(p) =>
            /\ force => p \in ToProcessSet
            /\ (~force /\ checkRes[p] # "hash_err") =>
                  (p \in ToProcessSet <=> (FindFile(pre.files, p) = {} \/ PreDiffers(p)))

\* C8, amended: the same for a file whose change check did not fail, neither
\* in the fingerprint nor in the lookup of the record.
C8_ChangeDecision ==
    \A p \in Paths :
        Checked(p) =>
            /\ force => p \in ToProcessSet
            /\ (~force /\ checkRes[p] = "ok") =>
                  (p \in ToProcessSet <=> (FindFile(pre.files, p) = {} \/ PreDiffers(p)))

\* One changed file is sent to processing and one unchanged file is not.
C8_Witness ==
    /\ ~force
    /\ \E p, q \in Paths :
          /\ checkRes[p] = "ok" /\ PreDiffers(p) /\ p \in ToProcessSet
          /\ checkRes[q] = "ok" /\ PreUnchanged(q) /\ q \in SkippedSet

\* C9: a file whose change check failed is in the files to process, counted
\* in total and not in skipped; and the task returns early only for a file
\* that is unchanged, so a task whose own check failed goes on to import.
C9_FailOpen ==
    /\ stats.total = Len(toProcess)
    /\ stats.skipped = Cardinality(SkippedSet)
    /\ \A p \in Paths :
          /\ checkRes[p] \in {"hash_err", "db_err"} =>
                (p \in ToProcessSet /\ p \notin SkippedSet)
          /\ tasks[p].early => PreUnchanged(p)

\* The check of an unchanged file failed and the file was processed.
C9_Witness ==
    /\ pc = "returned" /\ result = "ok"
    /\ \E p \in Paths :
          /\ checkRes[p] \in {"hash_err", "db_err"} /\ PreUnchanged(p)
          /\ p \in ToProcessSet /\ stats.total >= 1 /\ tasks[p].joined

\* The two stored rows of the scenario, whatever order their maps iterate in.
IsAliceRow(r) == r.id = 1 /\ r.data_json = Range(AliceRow)
IsBobRow(r) == r.id = 2 /\ r.data_json = Range(BobRow)
AliceBob == Alice \o <<" ">> \o Bob

Stripped(nm) == SelectSeq(nm, LAMBDA ch : ch \notin Forbidden)

\* C17: whatever the name, the sanitised name is a name (the call returns),
\* holds none of the characters \ / ? * [ ] :, is not empty, has at most 31
\* characters, and is the first 28 characters of the stripped name followed by
\* the ellipsis marker when the stripped name has more than 31 characters.
C17_Sanitise ==
    sanitized # NoValue =>
        /\ sanitized.t = "str"
        /\ Range(sanitized.s) \cap Forbidden = {}
        /\ sanitized.s # <<>>
        /\ Len(sanitized.s) <= 31
        /\ Len(Stripped(name)) > 31 =>
               sanitized.s = SubSeq(Stripped(name), 1, 28) \o Ellipsis
\* ------------------------------------------------------------- C11 .. C16
Keywords(q) == split_whitespace(Trim(q))
Matching(q) == {r \in excelData : RowMatches(r.search_text, Keywords(q))}
Answered == resp # NoResp /\ Keywords(resp.query) # <<>>

RECURSIVE Flatten(_)
Flatten(ss) == IF ss = <<>> THEN <<>> ELSE Head(ss) \o Flatten(Tail(ss))

\* C11: the score of every returned row is the number of distinct keywords of
\* the query that occur in its search text, plus the keyword count when the
\* whole query string occurs in it; a repeated keyword counts once.
C11_Score ==
    Answered =>
        \A i \in DOMAIN resp.results :
            LET text == resp.results[i].search_text
                kws == Keywords(resp.query) IN
            resp.scores[i] =
                Cardinality({k \in Range(kws) : Contains(text, k)})
                + (IF Contains(text, resp.query) THEN Len(kws) ELSE 0)

\* C12: in every result list a row comes before another only with a score at
\* least as high, and with equal scores only with an import time at least as
\* late, whatever the limit and the offset.
C12_Ordering ==
    \A i, j \in DOMAIN resp.results :
        i < j =>
            \/ resp.scores[i] > resp.scores[j]
            \/ /\ resp.scores[i] = resp.scores[j]
               /\ resp.results[i].import_time >= resp.results[j].import_time

\* A page that starts after the first match and holds two rows of one score,
\* the later import first.
C12_Witness ==
    /\ resp.offset > 0
    /\ \E i, j \in DOMAIN resp.results :
          /\ i < j
          /\ resp.scores[i] = resp.scores[j]
          /\ resp.results[i].import_time > resp.results[j].import_time

\* The client paged through the query to its end.
PagedThrough ==
    /\ pages # <<>>
    /\ resp.limit > 0
    /\ Len(pages) * resp.limit >= resp.total

\* C13: the pages of one query, asked one after the other over an unchanged
\* store, hold every matching row exactly once.
C13_Pagination ==
    PagedThrough =>
        LET all == Flatten(pages) IN
        /\ Len(all) = resp.total
        /\ \A i, j \in DOMAIN all : all[i] = all[j] => i = j
        /\ Range(all) = Matching(resp.query)

Exported == workbook.out.status # "none"
SheetRows(sh) == Range(sh.rows)

\* C15: an export is an error when the query has no keyword or nothing
\* matches, and else a workbook that holds every matching row.
C15_Export ==
    Exported =>
        IF Keywords(workbook.query) = <<>> \/ Matching(workbook.query) = {}
        THEN workbook.out.status = "err"
        ELSE /\ workbook.out.status = "ok"
             /\ UNION {SheetRows(sh) : sh \in workbook.out.sheets}
                    = Matching(workbook.query)

\* C16: an exported workbook has one worksheet for each file that owns a
\* matching row, and no worksheet holds rows of two files.
C16_GroupByFile ==
    workbook.out.status = "ok" =>
        /\ \A sh \in workbook.out.sheets :
              \A a, b \in SheetRows(sh) : a.file_id = b.file_id
        /\ Cardinality(workbook.out.sheets)
              = Cardinality({r.file_id : r \in Matching(workbook.query)})
\* --------------------------------------------------------------------- C18
\* The text is the plain decimal form of a number: an optional minus, digits
\* without a leading zero (or the one digit 0), and then nothing or a point
\* and digits that do not end in 0.
PlainDecimal(t) ==
    LET body == IF t # <<>> /\ Head(t) = "-" THEN Tail(t) ELSE t
        dot == DotPos(body)
        ip == IF dot = 0 THEN body ELSE SubSeq(body, 1, dot - 1)
        fp == IF dot = 0 THEN <<>> ELSE SubSeq(body, dot + 1, Len(body))
    IN  /\ ip # <<>>
        /\ Range(ip) \cup Range(fp) \subseteq Digits
        /\ Len(ip) > 1 => Head(ip) # "0"
        /\ dot # 0 => fp # <<>> /\ fp[Len(fp)] # "0"

\* The number a plain decimal text denotes.
Denoted(t) ==
    IF DotPos(t) = 0 THEN Num(t, <<>>)
    ELSE Num(SubSeq(t, 1, DotPos(t) - 1), SubSeq(t, DotPos(t) + 1, Len(t)))

\* C18: an empty cell becomes null; a cell of digits, signs and points
\* becomes a number exactly when it has at most 15 characters, no leading
\* zero unless it is a decimal, and is the text its number prints as, and
\* then it is that number; every other cell stays the string it was.
\* "0012345" and a run of 16 digits stay strings, "123.45" and "67" become
\* the numbers 123.45 and 67.
C18_Coercion ==
    value # NoValue =>
        /\ cell_str = <<>> => value = Null
        /\ cell_str # <<>> =>
              IF /\ Range(cell_str) \subseteq NumberChars
                 /\ Len(cell_str) <= 15
                 /\ PlainDecimal(cell_str)
              THEN value = Denoted(cell_str)
              ELSE value = Str(cell_str)
        /\ cell_str = Cell0012345 => value = Str(Cell0012345)
        /\ cell_str = Cell123p45 => value = Num(<<"1", "2", "3">>, <<"4", "5">>)
        /\ cell_str = Cell67 => value = Num(<<"6", "7">>, <<>>)
        /\ cell_str = Rep("1", 16) => value = Str(Rep("1", 16))

\* The cell 123.45 was read as the number 123.45.
C18_Witness ==
    /\ cell_str = Cell123p45
    /\ value = Num(<<"1", "2", "3">>, <<"4", "5">>)
\* --------------------------------------------------------------- C19, C20
\* The files that do not lie behind the entry or the subdirectory the scan
\* could not read.
ReadablePaths ==
    {p \in Paths :
        /\ unreadable # [kind |-> "entry", at |-> p]
        /\ unreadable.kind \in {"dir_entry", "read_dir"} => unreadable.at # dir_of(p)}

\* C19: when the scan cannot read one entry or one subdirectory below the
\* root, the run does not fail: the scan returns every file of the readable
\* parts and the run goes on with them.
C19_ScanTolerant ==
    (/\ pc # "idle"
     /\ root_ok(root)
     /\ unreadable # NoFault
     /\ unreadable # [kind |-> "read_dir", at |-> 0]) =>
        /\ result # "err"
        /\ Range(excelFiles) = ReadablePaths

\* C20: the store never holds two file records of one path, and a record
\* that was there when a run started is still there, with its id and its
\* path, whatever the run did.
C20_PathUnique ==
    /\ \A f, g \in files : f.file_path = g.file_path => f = g
    /\ \A f, g \in files : f.id = g.id => f = g
    /\ \A f \in pre.files :
          \E g \in files : g.id = f.id /\ g.file_path = f.file_path

\* A run whose chunk held two files at once gave the record of a path that
\* was imported before a new hash, next to the record of another path.
C20_Witness ==
    /\ chunk >= 2
    /\ Cardinality(files) >= 2
    /\ \A p \in {1, 2} : tasks[p].st = "ok" /\ ~tasks[p].early
    /\ \E f \in pre.files, g \in files :
          g.id = f.id /\ g.file_hash # f.file_hash
\* C21: at no moment of a run are more files in flight than
\* max(1, max_concurrent_files); a bound configured as 0 still lets the run
\* go on, one file at a time.
InFlightCount == Cardinality({p \in Paths : InFlight(p)})

C21_BoundedConcurrency ==
    /\ InFlightCount <= (IF max_concurrent_files > 1 THEN max_concurrent_files ELSE 1)
    /\ (pc \in {"spawn", "join"} /\ max_concurrent_files <= 0) => chunk = 1

\* A run configured with 0 that finished one file and has the next in flight.
C21_Witness ==
    /\ max_concurrent_files = 0
    /\ InFlightCount = 1
    /\ \E p \in Paths : tasks[p].joined

\* C27: when a run returns its counters, success + failed = total and
\* total + skipped = the number of files the scan found; every file found is
\* counted once, as a success, a failure or a skip.
CountedAs(sts) == Cardinality({p \in ToProcessSet : tasks[p].st \in sts})

C27_Counters ==
    (pc = "returned" /\ result = "ok") =>
        /\ stats.success + stats.failed = stats.total
        /\ stats.total + stats.skipped = Len(excelFiles)
        /\ stats.success = CountedAs({"ok"})
        /\ stats.failed = CountedAs({"err", "crash"})
        /\ stats.skipped = Cardinality(SkippedSet)
        /\ ToProcessSet \cap SkippedSet = {}
        /\ ToProcessSet \cup SkippedSet = Range(excelFiles)

\* A returned run that counted a success, a panicked task and a skipped file.
C27_Witness ==
    /\ pc = "returned"
    /\ result = "ok"
    /\ stats.success + stats.failed + stats.skipped >= 2
    /\ \E p \in ToProcessSet : tasks[p].st = "crash"

\* C25: one call of insert_excel_data stores all rows of its sheet, numbered
\* 1..n in input order, or none: every stored row has the whole sheet it came
\* from stored beside it, and a task that failed in the call for sheet k has
\* the sheets before k stored whole and no row of sheet k.
CallRows(p, k) == SheetRecords(tasks[p].fid, read_excel_file(disk[p])[k], run)

C25_InsertAllOrNothing ==
    /\ \A r \in excelData :
          /\ r.row_number = r.data_json[3]
          /\ SheetRecords(r.file_id, read_excel_file(r.data_json[1])[r.data_json[2]],
                          r.import_time) \subseteq excelData
    /\ \A p \in Paths :
          (tasks[p].st \in {"insert", "err", "crash"} /\ tasks[p].sheet >= 1) =>
              /\ CallRows(p, tasks[p].sheet) \cap excelData = {}
              /\ \A k \in 1..(tasks[p].sheet - 1) : CallRows(p, k) \subseteq excelData

\* A call for a sheet of two rows failed, and another file's call stored its
\* two rows.
C25_Witness ==
    \E p, q \in Paths :
        /\ tasks[p].st = "err" /\ tasks[p].sheet >= 1
        /\ Cardinality(CallRows(p, tasks[p].sheet)) = 2
        /\ tasks[q].st = "ok"
        /\ \E k \in DOMAIN read_excel_file(disk[q]) :
              Cardinality(CallRows(q, k)) = 2 /\ CallRows(q, k) \subseteq excelData

\* C28, as stated: between two runs, a file whose record holds the
\* fingerprint of the file's current bytes (the next run without
\* forceReimport skips it) has exactly the rows parsed from those bytes in
\* the store, whatever the time of their import.
UpToDate(p) ==
    \E f \in FindFile(files, p) : f.file_hash = generate_file_hash(disk[p])

C28_SkipSoundness ==
    pc = "idle" =>
        \A p \in Paths :
            UpToDate(p) =>
                \E f \in FindFile(files, p), t \in 0..MaxRuns :
                    CurRows(p) = ContentRecords(f.id, disk[p], t)

\* C29: the tasks of one batch work on different paths, and a step that is
\* not a step of the task of p changes neither the record nor the rows of p;
\* so when the run returns, the record and the rows of every processed file
\* (ids and times apart) are what its own task, run alone on the store as it
\* was at the start, leaves behind, and the counters count the tasks by their
\* outcomes.
OwnState(p) == <<FindFile(files, p), CurRows(p)>>

\* The rows of p, ids and times apart.
Content(rows) == {<<r.sheet_name, r.row_number, r.data_json>> : r \in rows}
SheetsBefore(c, k) ==
    UNION {SheetRecords(0, read_excel_file(c)[j], 0) : j \in 1..(k - 1)}

\* What the task of p alone leaves of p, given how far it came.
AloneOutcome(p) ==
    LET t == tasks[p]
        c == disk[p]
        hashed == \A f \in FindFile(files, p) : f.file_hash = generate_file_hash(c)
    IN  IF t.early \/ t.fid = NoFile
        THEN FindFile(files, p) = FindFile(pre.files, p) /\ CurRows(p) = PreRows(p)
        ELSE /\ Cardinality(FindFile(files, p)) = 1
             /\ hashed
             /\ IF t.st = "ok"
                THEN Content(CurRows(p)) = Content(ContentRecords(0, c, 0))
                ELSE IF t.sheet = 0
                THEN CurRows(p) = PreRows(p) \/ CurRows(p) = {}
                ELSE Content(CurRows(p)) = Content(SheetsBefore(c, t.sheet))

C29_Final ==
    (pc = "returned" /\ result = "ok") =>
        /\ \A i, j \in DOMAIN toProcess : toProcess[i] = toProcess[j] => i = j
        /\ \A p \in ToProcessSet : AloneOutcome(p)
        /\ stats.success = Cardinality({p \in ToProcessSet : tasks[p].st = "ok"})
        /\ stats.failed = Cardinality({p \in ToProcessSet : Failed(p)})

C29_Step ==
    \A p \in Paths : tasks'[p] = tasks[p] => OwnState(p)' = OwnState(p)

C29_InterleavingIndependence == []C29_Final /\ [][C29_Step]_vars

\* Two tasks of one batch are under way, each having written to the store.
C29_Witness ==
    \E p, q \in Paths :
        /\ p # q /\ InFlight(p) /\ InFlight(q)
        /\ tasks[p].st = "insert" /\ tasks[p].sheet = 2
        /\ tasks[q].st = "read" /\ PreRows(q) # {}

\* C30: the server serves only after the run of this process returned, with
\* Ok or with an error; while it serves, and whenever a request was served,
\* no file task is in flight, so no request sees a file between the delete
\* and the reinsert of a running import.
C30_StartupOrder ==
    /\ requests > 0 => pc = "serving"
    /\ pc = "serving" =>
          /\ result \in {"ok", "err"}
          /\ \A p \in Paths : ~InFlight(p)
          /\ \A p \in ToProcessSet : tasks[p].st \in Finished /\ tasks[p].joined

\* A request served after a run that returned an error, over the rows an
\* earlier process had imported.
C30_Witness ==
    requests > 0 /\ result = "err" /\ excelData # {}

\* C22: when no task stalls for ever, a run that started its checks returns
\* Ok with its counters, every file that needed import having been spawned
\* once, finished and joined; a task is spawned only if it was not spawned
\* in this run before; and as long as a task is in flight the coordinator
\* stays in the join loop of that task's batch and no file of a later batch
\* is spawned.
RunUnderWay == pc \in {"checking", "spawn", "join"}
RunReturned ==
    /\ pc = "returned" /\ result = "ok"
    /\ stats.total = Len(toProcess)
    /\ \A p \in ToProcessSet : tasks[p].st \in Finished /\ tasks[p].joined

C22_SpawnOnce ==
    \A p \in Paths :
        (tasks'[p].st \in Running /\ tasks[p].st \notin Running) =>
            (pc = "spawn" /\ p \in Chunk /\ tasks[p] = NoTask)

C22_Blocked ==
    \A p \in Paths :
        InFlight(p) =>
            /\ pc = "join" /\ p \in Chunk
            /\ \A q \in ToProcessSet : BatchOf(q) > BatchOf(p) => ~Dispatched(q)

C22_Termination ==
    /\ RunUnderWay ~> RunReturned
    /\ []C22_Blocked
    /\ [][C22_SpawnOnce]_vars

\* A run that returned after two batches of one file each.
C22_Witness ==
    /\ RunReturned
    /\ chunk = 1 /\ Len(toProcess) = 2

\* C23, as stated: the rows a search counts and returns, and the rows an
\* export writes, are exactly the stored rows in whose search text at least
\* one keyword of the query occurs as a substring.
SubstringMatching(q) ==
    {r \in excelData : \E k \in Range(Keywords(q)) : Contains(r.search_text, k)}

C23_MatchPredicate ==
    /\ Answered =>
          /\ resp.total = Cardinality(SubstringMatching(resp.query))
          /\ Range(resp.results) \subseteq SubstringMatching(resp.query)
    /\ workbook.out.status = "ok" =>
          UNION {SheetRows(sh) : sh \in workbook.out.sheets}
              = SubstringMatching(workbook.query)

\* C24: the search text of every stored row is the single-space join of the
\* string forms of the values stored in the row, in an order of the row's
\* entries; the string form of every stored value that is not null occurs in
\* it; and no step changes a row that stays in the store.
StringForm(v) == search_part(v)

C24_Derived ==
    \A r \in excelData :
        /\ \E o \in [1..Cardinality(r.data_json) -> r.data_json] :
              /\ \A i, j \in DOMAIN o : o[i] = o[j] => i = j
              /\ r.search_text = JoinSpace([i \in DOMAIN o |-> StringForm(o[i][2])])
        /\ \A e \in r.data_json :
              e[2].t # "null" => Contains(r.search_text, StringForm(e[2]))

C24_RowsKept ==
    \A r \in excelData : \A w \in excelData' : r.id = w.id => r = w

C24_SearchTextDerived == []C24_Derived /\ [][C24_RowsKept]_vars

\* A row was written whose text was cleaned, beside a row of another file
\* that an import had written before and left alone.
C24_Witness ==
    \E r, w \in excelData :
        /\ r.file_id # w.file_id
        /\ r.search_text = <<"A", "l", " ", "6", "7", ".", "0">>
        /\ <<IdKey, Null>> \in w.data_json

\* C26: the cache gives no value before its first update and none once more
\* than 300 s have passed since the last update, and else the value set
\* last; every answer from the cache is the value of the last successful
\* computation before it, stored at most 300 s earlier; and the cache holds
\* what the last successful computation stored, a failed one having left it
\* as it was.
StatsLog == stats_req.log
FreshBefore(i) == {j \in 1..(i - 1) : StatsLog[j].from = "fresh"}
LastFresh(i) == CHOOSE j \in FreshBefore(i) : \A k \in FreshBefore(i) : k <= j

C26_CacheFreshness ==
    LET n == Len(StatsLog) + 1 IN
    /\ \A i \in DOMAIN StatsLog :
          StatsLog[i].from = "cache" =>
              /\ FreshBefore(i) # {}
              /\ StatsLog[i].value = StatsLog[LastFresh(i)].value
              /\ StatsLog[i].at - StatsLog[LastFresh(i)].at <= 300
    /\ IF FreshBefore(n) = {}
       THEN stats_cache = NoStats /\ cache_get(stats_cache, clock) = <<>>
       ELSE /\ stats_cache.data = StatsLog[LastFresh(n)].value
            /\ stats_cache.last_updated = <<StatsLog[LastFresh(n)].at>>
            /\ cache_get(stats_cache, clock) =
                  IF clock - StatsLog[LastFresh(n)].at > 300 THEN <<>>
                  ELSE StatsLog[LastFresh(n)].value

\* A value was computed, a second computation failed, the value was answered
\* from the cache exactly 300 s after it was stored, and it was computed anew
\* after it had expired.
C26_Witness ==
    /\ Len(StatsLog) = 4
    /\ StatsLog[1].from = "fresh"
    /\ StatsLog[2].from = "error"
    /\ StatsLog[3].from = "cache" /\ StatsLog[3].at - StatsLog[1].at = 300
    /\ StatsLog[4].from = "fresh" /\ StatsLog[4].value # StatsLog[1].value

====
